---- MODULE Spec2Model ----
(***************************************************************************)
(* Portfolio content API: the Store Gateway (backend/database.py), the     *)
(* Seeder (backend/seed_data.py), the record schemas (backend/models.py)   *)
(* and the request handlers (backend/portfolio_routes.py).                 *)
(*                                                                         *)
(* A collection is the sequence of its documents in insertion order; a     *)
(* document is a function from field names to values.  An ObjectId is a    *)
(* natural number handed out by the store; str(ObjectId) and uuid4() are   *)
(* tagged pairs, so the two kinds of identifier never coincide, and every  *)
(* uuid4() call yields a value no earlier call yielded.                    *)
(* datetime.utcnow() reads the logical clock `now`, which advances by one  *)
(* tick per request.  Every store call may fault (raise); the choice of    *)
(* the faulting call sites of one request is the set F, and `faults`       *)
(* counts the faults chosen so far.                                        *)
(***************************************************************************)
EXTENDS Integers, Sequences, FiniteSets, TLC

VARIABLES
    profile,            \* db.profile
    projects,           \* db.projects
    visualizations,     \* db.visualizations
    contact_messages,   \* db.contact_messages
    analytics,          \* db.analytics
    now,                \* logical clock read by datetime.utcnow()
    nextOid,            \* next ObjectId the store hands out
    nextUuid,           \* next value uuid4() returns
    faults,             \* store faults so far
    last,               \* the last request: operation, status, response body
    hist,               \* the deletes and read-markings that returned true
    pc,                 \* interleaved requests: position of each client
    loc,                \* interleaved requests: locals of each client
    overlap             \* interleaved requests: two were in flight at once

vars == <<profile, projects, visualizations, contact_messages, analytics,
          now, nextOid, nextUuid, faults, last, hist, pc, loc, overlap>>

store == <<profile, projects, visualizations, contact_messages, analytics>>

----------------------------------------------------------------------------
(* Bounds of the model *)

MaxTime == 3        \* requests in one behaviour
MaxFaults == 1      \* faulting store calls in one behaviour
NumClients == 2     \* clients with one overlapping request each

----------------------------------------------------------------------------
(* Python values *)

None == <<>>
Some(x) == <<x>>
Truthy(x) == x # <<>>

\* d[k] = v on a dict
Put(d, k, v) == [x \in DOMAIN d \cup {k} |-> IF x = k THEN v ELSE d[x]]

\* {"$set": data} applied to a document
Merge(doc, data) ==
    [k \in DOMAIN doc \cup DOMAIN data |-> IF k \in DOMAIN data THEN data[k] ELSE doc[k]]

\* str(ObjectId), and a uuid4() string
OidStr(n) == <<"oid", n>>
Uuid(k) == <<"uuid", k>>

Site(name, i) == <<name, i>>

----------------------------------------------------------------------------
(* Store primitives *)

find_one(coll) == IF Len(coll) = 0 THEN None ELSE Some(coll[1])

insert_one(coll, doc, oid) == Append(coll, Put(doc, "_id", oid))

update_one(coll, oid, data) ==
    LET hit == {i \in 1..Len(coll) : coll[i]["_id"] = oid}
        first == CHOOSE i \in hit : \A j \in hit : i <= j
    IN  IF hit = {} THEN coll
        ELSE [coll EXCEPT ![first] = Merge(coll[first], data)]

StrId(doc) == Put(doc, "_id", OidStr(doc["_id"]))

----------------------------------------------------------------------------
(* Seed data (backend/seed_data.py).  `personal` stands for the content    *)
(* blocks of a profile (personal, skills, experience, education,           *)
(* certifications), which every operation carries along as one value.      *)

DefaultPersonal == "Venkata Keerthana Madisetty"

profile_data == [personal |-> DefaultPersonal]

projects_data == <<
    [title |-> "Claims360 Analytics Platform", type |-> "Professional Project", display_order |-> 1],
    [title |-> "Unified Claims & Credit Risk Analytics", type |-> "Professional Project", display_order |-> 2],
    [title |-> "Customer Churn Prediction Model", type |-> "Academic Project", display_order |-> 3],
    [title |-> "Healthcare Analytics Dashboard", type |-> "Academic Project", display_order |-> 4] >>

visualizations_data == <<
    [title |-> "Claims Performance Dashboard", is_active |-> TRUE, display_order |-> 1],
    [title |-> "Risk Score Distribution Analysis", is_active |-> TRUE, display_order |-> 2],
    [title |-> "Customer Churn Prediction Analysis", is_active |-> TRUE, display_order |-> 3] >>

----------------------------------------------------------------------------
(* Store Gateway (backend/database.py): profile, projects, visualizations. *)
(* Each operation takes the collection it works on and whether each of its *)
(* store calls faults; it yields the collection afterwards and the value   *)
(* returned to the caller.  A faulting store call raises before it changes *)
(* the collection, and the operation's except clause turns it into the     *)
(* safe default.                                                           *)

db_get_profile_absent(prof, fault) == None

db_get_profile(prof, fault) ==
    IF fault THEN None
    ELSE LET p == find_one(prof)
         IN  IF Truthy(p) THEN Some(StrId(p[1])) ELSE None

cup_write_upserting(prof, existing, data, t, oid) ==
    IF Len(prof) > 0
    THEN update_one(prof, prof[1]["_id"], data)
    ELSE insert_one(prof, Put(data, "created_at", t), oid)

\* the branch on `existing`: update the document read, or insert a new one
cup_write(prof, existing, data, t, oid) ==
    IF Truthy(existing)
    THEN update_one(prof, existing[1]["_id"], data)
    ELSE insert_one(prof, Put(data, "created_at", t), oid)

cup_always_insert(prof, data, t, oid, fFind, fWrite) ==
    IF fFind \/ fWrite THEN [coll |-> prof, ret |-> FALSE]
    ELSE [coll |-> insert_one(prof, Put(Put(data, "updated_at", t), "created_at", t), oid),
          ret |-> TRUE]

create_or_update_profile(prof, data, t, oid, fFind, fWrite) ==
    LET stamped == Put(data, "updated_at", t)
    IN  IF fFind \/ fWrite THEN [coll |-> prof, ret |-> FALSE]
        ELSE [coll |-> cup_write(prof, find_one(prof), stamped, t, oid), ret |-> TRUE]

create_project(projs, project_data, t, oid, fault) ==
    IF fault THEN [coll |-> projs, ret |-> None]
    ELSE [coll |-> insert_one(projs, Put(Put(project_data, "created_at", t), "updated_at", t), oid),
          ret |-> OidStr(oid)]

create_visualization(vizs, viz_data, t, oid, fault) ==
    IF fault THEN [coll |-> vizs, ret |-> None]
    ELSE [coll |-> insert_one(vizs, Put(Put(viz_data, "created_at", t), "updated_at", t), oid),
          ret |-> OidStr(oid)]

\* bson.ObjectId(s): the ObjectId a string denotes, or InvalidId raised (None)
ObjectId(s) == IF s[1] = "oid" THEN Some(s[2]) ELSE None

\* cursor.sort(key, dir): dir is 1 (ascending) or -1 (descending)
RECURSIVE sort(_, _, _)
sort(coll, key, dir) ==
    IF Len(coll) = 0 THEN <<>>
    ELSE LET n == Len(coll)
             head == sort(SubSeq(coll, 1, n - 1), key, dir)
             d == coll[n]
             k == Cardinality({i \in 1..Len(head) : dir * head[i][key] <= dir * d[key]})
         IN  SubSeq(head, 1, k) \o <<d>> \o SubSeq(head, k + 1, Len(head))

delete_one(coll, oid) ==
    LET hit == {i \in 1..Len(coll) : coll[i]["_id"] = oid}
        first == CHOOSE i \in hit : \A j \in hit : i <= j
    IN  IF hit = {} THEN coll
        ELSE SubSeq(coll, 1, first - 1) \o SubSeq(coll, first + 1, Len(coll))

update_project_always_true(projs, project_id, project_data, t, fault) ==
    LET oid == ObjectId(project_id)
    IN  IF ~Truthy(oid) \/ fault THEN [coll |-> projs, ret |-> TRUE]
        ELSE [coll |-> update_one(projs, oid[1], Put(project_data, "updated_at", t)),
              ret |-> TRUE]

update_project_restamping(projs, project_id, project_data, t, fault) ==
    LET oid == ObjectId(project_id)
        after == update_one(projs, oid[1],
                            Put(Put(project_data, "updated_at", t), "created_at", t))
    IN  IF ~Truthy(oid) \/ fault THEN [coll |-> projs, ret |-> FALSE]
        ELSE [coll |-> after, ret |-> after # projs]

update_project(projs, project_id, project_data, t, fault) ==
    LET oid == ObjectId(project_id)
        after == update_one(projs, oid[1], Put(project_data, "updated_at", t))
    IN  IF ~Truthy(oid) \/ fault THEN [coll |-> projs, ret |-> FALSE]
        ELSE [coll |-> after, ret |-> after # projs]

delete_project_keeping(projs, project_id, fault) ==
    LET oid == ObjectId(project_id)
    IN  IF ~Truthy(oid) \/ fault THEN [coll |-> projs, ret |-> FALSE]
        ELSE [coll |-> projs, ret |-> Len(delete_one(projs, oid[1])) < Len(projs)]

delete_project(projs, project_id, fault) ==
    LET oid == ObjectId(project_id)
        after == delete_one(projs, oid[1])
    IN  IF ~Truthy(oid) \/ fault THEN [coll |-> projs, ret |-> FALSE]
        ELSE [coll |-> after, ret |-> Len(after) < Len(projs)]

create_contact_message(msgs, message_data, t, oid, fault) ==
    IF fault THEN [coll |-> msgs, ret |-> None]
    ELSE [coll |-> insert_one(msgs, Put(Put(message_data, "created_at", t), "is_read", FALSE), oid),
          ret |-> OidStr(oid)]

get_contact_messages(msgs, fault) ==
    IF fault THEN <<>>
    ELSE LET sorted == sort(msgs, "created_at", -1)
         IN  [i \in 1..Len(sorted) |-> StrId(sorted[i])]

mark_message_read_matched(msgs, message_id, fault) ==
    LET oid == ObjectId(message_id)
    IN  IF ~Truthy(oid) \/ fault THEN [coll |-> msgs, ret |-> FALSE]
        ELSE [coll |-> update_one(msgs, oid[1], [is_read |-> TRUE]),
              ret |-> \E i \in 1..Len(msgs) : msgs[i]["_id"] = oid[1]]

mark_message_read_toggling(msgs, message_id, fault) ==
    LET oid == ObjectId(message_id)
        after == update_one(msgs, oid[1],
                            [is_read |-> \A i \in 1..Len(msgs) :
                                            msgs[i]["_id"] = oid[1] => ~msgs[i]["is_read"]])
    IN  IF ~Truthy(oid) \/ fault THEN [coll |-> msgs, ret |-> FALSE]
        ELSE [coll |-> after, ret |-> after # msgs]

mark_message_read(msgs, message_id, fault) ==
    LET oid == ObjectId(message_id)
        after == update_one(msgs, oid[1], [is_read |-> TRUE])
    IN  IF ~Truthy(oid) \/ fault THEN [coll |-> msgs, ret |-> FALSE]
        ELSE [coll |-> after, ret |-> after # msgs]

create_analytics_event(events, event_data, t, oid, fault) ==
    IF fault THEN [coll |-> events, ret |-> FALSE]
    ELSE [coll |-> insert_one(events, Put(event_data, "timestamp", t), oid), ret |-> TRUE]

\* `if project_type:` on an Optional[str]: None and "" are falsy
NonEmpty(opt) == opt # None /\ opt # Some("")

find_all(coll, query) == coll

\* db.projects.find(query)
find(coll, query) ==
    SelectSeq(coll, LAMBDA d : \A k \in DOMAIN query : k \in DOMAIN d /\ d[k] = query[k])

get_projects(projs, project_type, fault) ==
    IF fault THEN <<>>
    ELSE LET query == IF NonEmpty(project_type) THEN [type |-> project_type[1]] ELSE <<>>
             sorted == sort(find(projs, query), "display_order", 1)
         IN  [i \in 1..Len(sorted) |-> StrId(sorted[i])]

get_visualizations(vizs, fault) ==
    IF fault THEN <<>>
    ELSE LET sorted == sort(find(vizs, [is_active |-> TRUE]), "display_order", 1)
         IN  [i \in 1..Len(sorted) |-> StrId(sorted[i])]

----------------------------------------------------------------------------
(* Store Gateway: get_analytics_stats.  An Optional[str] field of an event *)
(* (page) holds None or Some(s).                                           *)

RecentLimit == 10
TopLimit == 5

count_documents(coll, query) == Len(find(coll, query))

\* cursor.limit(n)
limit_none(s, n) == s

limit(s, n) == SubSeq(s, 1, IF Len(s) < n THEN Len(s) ELSE n)

VisitQuery == [event_type |-> "visit"]

\* one entry of recent_visits: dict.get(key, default) yields the default only
\* when the key is missing
recent_visit(visit) ==
    [page |-> IF "page" \in DOMAIN visit THEN visit["page"] ELSE Some("/"),
     timestamp |-> visit["timestamp"],
     ip_address |-> IF "ip_address" \in DOMAIN visit THEN visit["ip_address"] ELSE "unknown"]

\* {"$group": {"_id": "$page", ...}}: a missing page groups with null
group_id(visit) == IF "page" \in DOMAIN visit THEN visit["page"] ELSE None

group_count(visits, id) == Cardinality({i \in 1..Len(visits) : group_id(visits[i]) = id})

\* $group, $sort by count descending, $limit 5: the group ids in the orders
\* the pipeline may yield them (the order among equal counts is the store's)
aggregate(visits) ==
    LET ids == {group_id(visits[i]) : i \in 1..Len(visits)}
        m == IF Cardinality(ids) < TopLimit THEN Cardinality(ids) ELSE TopLimit
    IN  {s \in [1..m -> ids] :
            /\ \A i, j \in 1..m : i < j =>
                  /\ s[i] # s[j]
                  /\ group_count(visits, s[i]) >= group_count(visits, s[j])
            /\ \A id \in ids \ {s[i] : i \in 1..m} :
                  \A i \in 1..m : group_count(visits, id) <= group_count(visits, s[i])}

\* page["_id"] or "/"
top_page(visits, id) ==
    [page |-> IF NonEmpty(id) THEN id ELSE Some("/"), visits |-> group_count(visits, id)]

ZeroStats ==
    [total_visits |-> 0, total_downloads |-> 0, total_contacts |-> 0,
     recent_visits |-> <<>>, top_pages |-> <<>>]

get_analytics_stats_partial(events, msgs, pages, fault) ==
    LET visits == find(events, VisitQuery)
        recent == limit(sort(visits, "timestamp", -1), RecentLimit)
    IN  [total_visits |-> count_documents(events, VisitQuery),
         total_downloads |-> count_documents(events, [event_type |-> "download"]),
         total_contacts |-> count_documents(msgs, <<>>),
         recent_visits |-> IF fault THEN <<>>
                           ELSE [i \in 1..Len(recent) |-> recent_visit(recent[i])],
         top_pages |-> IF fault THEN <<>>
                       ELSE [i \in 1..Len(pages) |-> top_page(visits, pages[i])]]

\* `pages` is the pipeline's result, one of aggregate(visit events)
get_analytics_stats(events, msgs, pages, fault) ==
    IF fault THEN ZeroStats
    ELSE LET visits == find(events, VisitQuery)
             recent == limit(sort(visits, "timestamp", -1), RecentLimit)
         IN  [total_visits |-> count_documents(events, VisitQuery),
              total_downloads |-> count_documents(events, [event_type |-> "download"]),
              total_contacts |-> count_documents(msgs, <<>>),
              recent_visits |-> [i \in 1..Len(recent) |-> recent_visit(recent[i])],
              top_pages |-> [i \in 1..Len(pages) |-> top_page(visits, pages[i])]]

----------------------------------------------------------------------------
(* Seeder (backend/seed_data.py).  S is the part of the store the seeder   *)
(* reaches: [profile, projects, visualizations, nextOid].                  *)

RECURSIVE seed_projects_stopping(_, _, _, _)
seed_projects_stopping(S, i, t, F) ==
    IF i > Len(projects_data) THEN S
    ELSE LET r == create_project(S.projects, projects_data[i], t, S.nextOid,
                                 Site("create_project", i) \in F)
         IN  IF ~Truthy(r.ret) THEN S
             ELSE seed_projects_stopping([S EXCEPT !.projects = r.coll, !.nextOid = @ + 1],
                                         i + 1, t, F)

RECURSIVE seed_projects(_, _, _, _)
seed_projects(S, i, t, F) ==
    IF i > Len(projects_data) THEN S
    ELSE LET r == create_project(S.projects, projects_data[i], t, S.nextOid,
                                 Site("create_project", i) \in F)
         IN  seed_projects([S EXCEPT !.projects = r.coll,
                                     !.nextOid = IF Truthy(r.ret) THEN @ + 1 ELSE @],
                           i + 1, t, F)

RECURSIVE seed_visualizations(_, _, _, _)
seed_visualizations(S, i, t, F) ==
    IF i > Len(visualizations_data) THEN S
    ELSE LET r == create_visualization(S.visualizations, visualizations_data[i], t, S.nextOid,
                                       Site("create_visualization", i) \in F)
         IN  seed_visualizations([S EXCEPT !.visualizations = r.coll,
                                           !.nextOid = IF Truthy(r.ret) THEN @ + 1 ELSE @],
                                 i + 1, t, F)

seed_without_check(S, t, F) ==
    LET r == create_or_update_profile(S.profile, profile_data, t, S.nextOid,
                                      Site("seed_find_one", 0) \in F,
                                      Site("seed_write", 0) \in F)
        S1 == [S EXCEPT !.profile = r.coll,
                        !.nextOid = @ + (Len(r.coll) - Len(S.profile))]
    IN  IF ~r.ret THEN S1
        ELSE seed_visualizations(seed_projects(S1, 1, t, F), 1, t, F)

seed_initial_data_continuing(S, t, F) ==
    LET existing_profile == db_get_profile(S.profile, Site("seed_get_profile", 0) \in F)
    IN  IF Truthy(existing_profile) THEN S
        ELSE LET r == create_or_update_profile(S.profile, profile_data, t, S.nextOid,
                                               Site("seed_find_one", 0) \in F,
                                               Site("seed_write", 0) \in F)
                 S1 == [S EXCEPT !.profile = r.coll,
                                 !.nextOid = @ + (Len(r.coll) - Len(S.profile))]
             IN  seed_visualizations(seed_projects(S1, 1, t, F), 1, t, F)

seed_initial_data(S, t, F) ==
    LET existing_profile == db_get_profile(S.profile, Site("seed_get_profile", 0) \in F)
    IN  IF Truthy(existing_profile) THEN S
        ELSE LET r == create_or_update_profile(S.profile, profile_data, t, S.nextOid,
                                               Site("seed_find_one", 0) \in F,
                                               Site("seed_write", 0) \in F)
                 S1 == [S EXCEPT !.profile = r.coll,
                                 !.nextOid = @ + (Len(r.coll) - Len(S.profile))]
             IN  IF ~r.ret THEN S1
                 ELSE seed_visualizations(seed_projects(S1, 1, t, F), 1, t, F)

SeedSites ==
    {Site("seed_get_profile", 0), Site("seed_find_one", 0), Site("seed_write", 0)}
    \cup {Site("create_project", i) : i \in 1..Len(projects_data)}
    \cup {Site("create_visualization", i) : i \in 1..Len(visualizations_data)}

SeederStore == [profile |-> profile, projects |-> projects,
                visualizations |-> visualizations, nextOid |-> nextOid]

----------------------------------------------------------------------------
(* Request handlers (backend/portfolio_routes.py).  The body of a handler  *)
(* either returns or raises; its `except Exception` clause catches what is *)
(* raised, HTTPException included, and raises HTTPException(500).          *)

Returned == <<"return", 200>>
HTTPException(status_code) == <<"HTTPException", status_code>>

except_Exception(outcome) ==
    IF outcome[1] = "HTTPException" THEN HTTPException(500) ELSE outcome

StatusOf(outcome) == except_Exception(outcome)[2]

\* response_model=Profile: a document without `id` gets a fresh uuid4()
ToProfile(doc, u) ==
    [id |-> IF "id" \in DOMAIN doc THEN doc["id"] ELSE u,
     personal |-> doc["personal"],
     created_at |-> doc["created_at"],
     updated_at |-> doc["updated_at"]]

FaultSets(sites) == {F \in SUBSET sites : Cardinality(F) <= MaxFaults}

\* the fault sets a request may still draw
Affordable(sets) == {F \in sets : Cardinality(F) <= MaxFaults - faults}

Clients == 1..NumClients
Idle == [c \in Clients |-> "idle"]
NoLocals == [c \in Clients |-> [existing |-> None, status |-> 0, data |-> None]]

\* what a request leaves behind apart from the collections; FinishWith also
\* records the request's parameters (path parameter, query parameter, body)
NoHistory == [deleted |-> {}, marked |-> <<>>]

\* the history after a request: the identifiers for which delete_project
\* returned true, and those for which mark_message_read did, in order
Recorded(req, op, ok) ==
    IF op = "DELETE /projects/{id}" /\ ok THEN [hist EXCEPT !.deleted = @ \cup {req}]
    ELSE IF op = "PUT /contact/{id}/read" /\ ok THEN [hist EXCEPT !.marked = Append(@, req)]
    ELSE hist

FinishWith(req, op, ok, status, body, uuids, F) ==
    /\ last' = [op |-> op, ok |-> ok, status |-> status, body |-> body, req |-> Some(req)]
    /\ hist' = Recorded(req, op, ok)
    /\ now' = now + 1
    /\ nextUuid' = nextUuid + uuids
    /\ faults' = faults + Cardinality(F)
    /\ UNCHANGED <<pc, loc, overlap>>

Finish(op, ok, status, body, uuids, F) ==
    /\ last' = [op |-> op, ok |-> ok, status |-> status, body |-> body, req |-> None]
    /\ hist' = hist
    /\ now' = now + 1
    /\ nextUuid' = nextUuid + uuids
    /\ faults' = faults + Cardinality(F)
    /\ UNCHANGED <<pc, loc, overlap>>

SetSeederStore(S) ==
    /\ profile' = S.profile
    /\ projects' = S.projects
    /\ visualizations' = S.visualizations
    /\ nextOid' = S.nextOid

----------------------------------------------------------------------------
(* Profile endpoints, and the Seeder and the profile upsert called         *)
(* directly.                                                               *)

GetProfileSites == SeedSites \cup {Site("get_profile", 0), Site("get_profile", 1)}
GetProfileFaults == FaultSets(GetProfileSites)
SeedFaults == FaultSets(SeedSites)
UpsertSites == {Site("find_one", 0), Site("write", 0)}
UpsertFaults == FaultSets(UpsertSites)

\* GET /profile
get_profile ==
    /\ now <= MaxTime
    /\ \E F \in Affordable(GetProfileFaults) :
         LET first == db_get_profile(profile, Site("get_profile", 0) \in F)
             S == IF Truthy(first) THEN SeederStore
                  ELSE seed_initial_data(SeederStore, now, F)
             found == IF Truthy(first) THEN first
                      ELSE db_get_profile(S.profile, Site("get_profile", 1) \in F)
             outcome == IF Truthy(found) THEN Returned ELSE HTTPException(404)
         IN  /\ SetSeederStore(S)
             /\ Finish("GET /profile", StatusOf(outcome) = 200, StatusOf(outcome),
                       IF Truthy(found) THEN Some(ToProfile(found[1], Uuid(nextUuid))) ELSE None,
                       IF Truthy(found) /\ "id" \notin DOMAIN found[1] THEN 1 ELSE 0, F)
    /\ UNCHANGED <<contact_messages, analytics>>

\* seed_initial_data(db_manager)
call_seed_initial_data ==
    /\ now <= MaxTime
    /\ \E F \in Affordable(SeedFaults) :
         /\ SetSeederStore(seed_initial_data(SeederStore, now, F))
         /\ Finish("seed_initial_data", TRUE, 0, None, 0, F)
    /\ UNCHANGED <<contact_messages, analytics>>

ProfileContents == {DefaultPersonal, "Another Person"}

\* a valid Profile body as profile.dict() hands it to the gateway: id is the
\* schema's default (uuid4()), created_at the client's (0, an earlier time)
\* or the schema's default (utcnow())
ProfileBodies(t, u) ==
    {[id |-> u, personal |-> p, created_at |-> c, updated_at |-> t] :
        p \in ProfileContents, c \in {0, t}}

\* PUT /profile
update_profile ==
    /\ now <= MaxTime
    /\ \E F \in Affordable(UpsertFaults), body \in ProfileBodies(now, Uuid(nextUuid)) :
         LET r == create_or_update_profile(profile, body, now, nextOid,
                                           Site("find_one", 0) \in F, Site("write", 0) \in F)
             outcome == IF r.ret THEN Returned ELSE HTTPException(500)
         IN  /\ profile' = r.coll
             /\ nextOid' = nextOid + (Len(r.coll) - Len(profile))
             /\ Finish("PUT /profile", StatusOf(outcome) = 200, StatusOf(outcome), None, 1, F)
    /\ UNCHANGED <<projects, visualizations, contact_messages, analytics>>

\* db.create_or_update_profile(data) with a dict that carries no timestamps
call_create_or_update_profile ==
    /\ now <= MaxTime
    /\ \E F \in Affordable(UpsertFaults), p \in ProfileContents :
         LET r == create_or_update_profile(profile, [personal |-> p], now, nextOid,
                                           Site("find_one", 0) \in F, Site("write", 0) \in F)
         IN  /\ profile' = r.coll
             /\ nextOid' = nextOid + (Len(r.coll) - Len(profile))
             /\ Finish("create_or_update_profile", r.ret, 0, None, 0, F)
    /\ UNCHANGED <<projects, visualizations, contact_messages, analytics>>

----------------------------------------------------------------------------
(* Record schemas (backend/models.py) and request metadata.  An e-mail     *)
(* address is the sequence of its atoms and of the "@" and "." between     *)
(* them; a request carries the parts of its X-Forwarded-For header (empty: *)
(* no header) and its peer address (None: no client).                      *)

EmailMarks == {"@", "."}

\* EmailStr: one "@", a "." after it, and a non-empty atom on both sides of
\* every "@" and "."
IsEmail(e) ==
    /\ Len(e) > 0
    /\ Cardinality({i \in 1..Len(e) : e[i] = "@"}) = 1
    /\ e[1] \notin EmailMarks
    /\ e[Len(e)] \notin EmailMarks
    /\ \A j \in 1..(Len(e) - 1) : ~(e[j] \in EmailMarks /\ e[j + 1] \in EmailMarks)
    /\ \E i, j \in 1..Len(e) : i < j /\ e[i] = "@" /\ e[j] = "."

ContactCreate_no_email_check(body) ==
    {"name", "email", "subject", "message"} \subseteq DOMAIN body

\* ContactCreate(**body) validates
ContactCreate(body) ==
    /\ {"name", "email", "subject", "message"} \subseteq DOMAIN body
    /\ IsEmail(body["email"])

Requests ==
    {[forwarded |-> <<"203.0.113.7", "10.0.0.1">>, client |-> Some("10.0.0.1"),
      user_agent |-> "aiohttp", referer |-> "https://example.com/"],
     [forwarded |-> <<>>, client |-> Some("10.0.0.1"), user_agent |-> "aiohttp", referer |-> ""],
     [forwarded |-> <<>>, client |-> None, user_agent |-> "aiohttp", referer |-> ""]}

get_client_ip(request) ==
    IF Len(request.forwarded) > 0 THEN request.forwarded[1]
    ELSE IF Truthy(request.client) THEN request.client[1] ELSE "unknown"

ContactBodies ==
    {[name |-> "John Doe", email |-> <<"john", ".", "doe", "@", "example", ".", "com">>,
      subject |-> "Test", message |-> "Hello"],
     [name |-> "John Doe", email |-> <<"invalid-email">>,
      subject |-> "Test", message |-> "Hello"],
     [name |-> "John Doe", email |-> <<"john", ".", "doe", "@", "example">>,
      subject |-> "Test", message |-> "Hello"],
     [name |-> "John Doe", email |-> <<"john", ".", "doe", "@", "example", ".", "com">>,
      subject |-> "Test"],
     [name |-> "Test User"]}

\* response_model=List[ContactMessage]: the schema has no field for `_id`, so
\* every entry's id is its default, a fresh uuid4()
ToContactMessage(doc, u) ==
    [id |-> IF "id" \in DOMAIN doc THEN doc["id"] ELSE u,
     name |-> doc["name"],
     is_read |-> doc["is_read"],
     created_at |-> doc["created_at"]]

ProjectInputs ==
    {[title |-> "Fraud Model", type |-> "Professional Project", display_order |-> 0],
     [title |-> "Thesis", type |-> "Academic Project", display_order |-> 2]}

\* ProjectUpdate.dict(exclude_unset=True): the fields the body sets
ProjectUpdates ==
    {<<>>, [title |-> "Thesis"], [display_order |-> 2],
     [type |-> "Academic Project", display_order |-> 5]}

\* identifiers a client may put in a path: the str(ObjectId) of each document
\* of the collection and of no document, and the uuid4() string last issued
PathIds(coll) ==
    {OidStr(coll[i]["_id"]) : i \in 1..Len(coll)} \cup {OidStr(nextOid), Uuid(nextUuid - 1)}

OneFault == FaultSets({Site("store", 0)})
ContactSites == {Site("insert_message", 0), Site("insert_event", 0)}
ContactFaults == FaultSets(ContactSites)

----------------------------------------------------------------------------
(* Project endpoints *)

\* POST /projects
create_project_route ==
    /\ now <= MaxTime
    /\ \E F \in Affordable(OneFault), project \in ProjectInputs :
         LET r == create_project(projects, project, now, nextOid, Site("store", 0) \in F)
             outcome == IF Truthy(r.ret) THEN Returned ELSE HTTPException(500)
         IN  /\ projects' = r.coll
             /\ nextOid' = nextOid + (Len(r.coll) - Len(projects))
             /\ FinishWith(project, "POST /projects", StatusOf(outcome) = 200, StatusOf(outcome),
                           IF Truthy(r.ret) THEN Some(r.ret) ELSE None, 0, F)
    /\ UNCHANGED <<profile, visualizations, contact_messages, analytics>>

\* PUT /projects/{project_id}
update_project_route ==
    /\ now <= MaxTime
    /\ \E F \in Affordable(OneFault), project_id \in PathIds(projects), project \in ProjectUpdates :
         LET r == update_project(projects, project_id, project, now, Site("store", 0) \in F)
             outcome == IF r.ret THEN Returned ELSE HTTPException(404)
         IN  /\ projects' = r.coll
             /\ FinishWith(<<project_id, project>>, "PUT /projects/{id}", r.ret,
                           StatusOf(outcome), None, 0, F)
    /\ UNCHANGED <<profile, visualizations, contact_messages, analytics, nextOid>>

\* DELETE /projects/{project_id}
delete_project_route ==
    /\ now <= MaxTime
    /\ \E F \in Affordable(OneFault), project_id \in PathIds(projects) :
         LET r == delete_project(projects, project_id, Site("store", 0) \in F)
             outcome == IF r.ret THEN Returned ELSE HTTPException(404)
         IN  /\ projects' = r.coll
             /\ FinishWith(project_id, "DELETE /projects/{id}", r.ret, StatusOf(outcome),
                           None, 0, F)
    /\ UNCHANGED <<profile, visualizations, contact_messages, analytics, nextOid>>

----------------------------------------------------------------------------
(* Contact endpoints *)

\* POST /contact: the body is validated before the handler runs
submit_contact_form ==
    /\ now <= MaxTime
    /\ \E F \in Affordable(ContactFaults), body \in ContactBodies, request \in Requests :
         IF ~ContactCreate(body)
         THEN /\ UNCHANGED <<contact_messages, analytics, nextOid>>
              /\ FinishWith(body, "POST /contact", FALSE, 422, None, 0, F)
         ELSE LET contact_data == Put(Put(body, "ip_address", get_client_ip(request)),
                                      "user_agent", request.user_agent)
                  m == create_contact_message(contact_messages, contact_data, now, nextOid,
                                              Site("insert_message", 0) \in F)
                  e == IF Truthy(m.ret)
                       THEN create_analytics_event(analytics,
                                [event_type |-> "contact", page |-> Some("contact"),
                                 ip_address |-> contact_data["ip_address"],
                                 user_agent |-> contact_data["user_agent"]],
                                now, nextOid + 1, Site("insert_event", 0) \in F)
                       ELSE [coll |-> analytics, ret |-> FALSE]
                  outcome == IF Truthy(m.ret) THEN Returned ELSE HTTPException(500)
              IN  /\ contact_messages' = m.coll
                  /\ analytics' = e.coll
                  /\ nextOid' = nextOid + (Len(m.coll) - Len(contact_messages))
                                        + (Len(e.coll) - Len(analytics))
                  /\ FinishWith(body, "POST /contact", StatusOf(outcome) = 200, StatusOf(outcome),
                            IF Truthy(m.ret) THEN Some(m.ret) ELSE None, 0, F)
    /\ UNCHANGED <<profile, projects, visualizations>>

\* GET /contact
get_contact_messages_route ==
    /\ now <= MaxTime
    /\ \E F \in Affordable(OneFault) :
         LET messages == get_contact_messages(contact_messages, Site("store", 0) \in F)
         IN  Finish("GET /contact", TRUE, 200,
                    [i \in 1..Len(messages) |->
                        ToContactMessage(messages[i], Uuid(nextUuid + i - 1))],
                    Len(messages), F)
    /\ UNCHANGED <<store, nextOid>>

\* PUT /contact/{message_id}/read
mark_message_read_route ==
    /\ now <= MaxTime
    /\ \E F \in Affordable(OneFault), message_id \in PathIds(contact_messages) :
         LET r == mark_message_read(contact_messages, message_id, Site("store", 0) \in F)
             outcome == IF r.ret THEN Returned ELSE HTTPException(404)
         IN  /\ contact_messages' = r.coll
             /\ FinishWith(message_id, "PUT /contact/{id}/read", r.ret, StatusOf(outcome),
                           None, 0, F)
    /\ UNCHANGED <<profile, projects, visualizations, analytics, nextOid>>

----------------------------------------------------------------------------
(* Project listing *)

\* the project_type query parameter: absent, empty, or a type
ProjectTypes == {None, Some(""), Some("Professional Project"), Some("Academic Project")}

\* response_model=List[Project]: the schema has no field for `_id`, so every
\* entry's id is its default, a fresh uuid4()
ToProject(doc, u) ==
    [id |-> IF "id" \in DOMAIN doc THEN doc["id"] ELSE u,
     title |-> doc["title"],
     type |-> doc["type"],
     display_order |-> doc["display_order"],
     created_at |-> doc["created_at"],
     updated_at |-> doc["updated_at"]]

\* GET /projects
get_projects_route ==
    /\ now <= MaxTime
    /\ \E F \in Affordable(OneFault), project_type \in ProjectTypes :
         LET listed == get_projects(projects, project_type, Site("store", 0) \in F)
         IN  FinishWith(project_type, "GET /projects", TRUE, 200,
                        [i \in 1..Len(listed) |-> ToProject(listed[i], Uuid(nextUuid + i - 1))],
                        Len(listed), F)
    /\ UNCHANGED <<store, nextOid>>

\* db.get_projects(project_type)
call_get_projects ==
    /\ now <= MaxTime
    /\ \E F \in Affordable(OneFault), project_type \in ProjectTypes :
         FinishWith(project_type, "get_projects", TRUE, 0,
                    get_projects(projects, project_type, Site("store", 0) \in F), 0, F)
    /\ UNCHANGED <<store, nextOid>>

----------------------------------------------------------------------------
(* Analytics and resume endpoints *)

\* AnalyticsCreate(**body) validates
AnalyticsCreate(body) == "event_type" \in DOMAIN body

\* analytics.dict(): an omitted page is None
AnalyticsCreate_dict(body) ==
    [event_type |-> body["event_type"],
     page |-> IF "page" \in DOMAIN body THEN body["page"] ELSE None]

VisitBodies ==
    {[event_type |-> "visit", page |-> Some("/")],
     [event_type |-> "visit", page |-> Some("projects")],
     [event_type |-> "visit"],
     [event_type |-> "download", page |-> Some("resume")],
     [page |-> Some("/")]}

\* POST /analytics/visit: the body is validated before the handler runs
log_visit ==
    /\ now <= MaxTime
    /\ \E F \in Affordable(OneFault), body \in VisitBodies, request \in Requests :
         IF ~AnalyticsCreate(body)
         THEN /\ UNCHANGED <<analytics, nextOid>>
              /\ FinishWith(body, "POST /analytics/visit", FALSE, 422, None, 0, F)
         ELSE LET event_data ==
                      Put(Put(Put(AnalyticsCreate_dict(body),
                                  "ip_address", get_client_ip(request)),
                              "user_agent", request.user_agent),
                          "referrer", request.referer)
                  r == create_analytics_event(analytics, event_data, now, nextOid,
                                              Site("store", 0) \in F)
                  outcome == IF r.ret THEN Returned ELSE HTTPException(500)
              IN  /\ analytics' = r.coll
                  /\ nextOid' = nextOid + (Len(r.coll) - Len(analytics))
                  /\ FinishWith(body, "POST /analytics/visit", StatusOf(outcome) = 200,
                                StatusOf(outcome), None, 0, F)
    /\ UNCHANGED <<profile, projects, visualizations, contact_messages>>

\* POST /analytics/download
log_download ==
    /\ now <= MaxTime
    /\ \E F \in Affordable(OneFault), request \in Requests :
         LET event_data == [event_type |-> "download", page |-> Some("resume"),
                            ip_address |-> get_client_ip(request),
                            user_agent |-> request.user_agent,
                            referrer |-> request.referer]
             r == create_analytics_event(analytics, event_data, now, nextOid,
                                         Site("store", 0) \in F)
             outcome == IF r.ret THEN Returned ELSE HTTPException(500)
         IN  /\ analytics' = r.coll
             /\ nextOid' = nextOid + (Len(r.coll) - Len(analytics))
             /\ Finish("POST /analytics/download", StatusOf(outcome) = 200,
                       StatusOf(outcome), None, 0, F)
    /\ UNCHANGED <<profile, projects, visualizations, contact_messages>>

\* GET /resume/download: the result of create_analytics_event is not looked at
download_resume ==
    /\ now <= MaxTime
    /\ \E F \in Affordable(OneFault), request \in Requests :
         LET r == create_analytics_event(analytics,
                      [event_type |-> "download", page |-> Some("resume"),
                       ip_address |-> get_client_ip(request),
                       user_agent |-> request.user_agent],
                      now, nextOid, Site("store", 0) \in F)
         IN  /\ analytics' = r.coll
             /\ nextOid' = nextOid + (Len(r.coll) - Len(analytics))
             /\ Finish("GET /resume/download", StatusOf(Returned) = 200, StatusOf(Returned),
                       Some([filename |-> "Keerthana_Madisetty_Resume.pdf"]), 0, F)
    /\ UNCHANGED <<profile, projects, visualizations, contact_messages>>

\* the store calls of get_analytics_stats
StatsSites ==
    {Site("count_visits", 0), Site("count_downloads", 0), Site("count_contacts", 0),
     Site("find_visits", 0), Site("aggregate", 0)}

\* GET /analytics/stats
get_analytics_stats_route ==
    /\ now <= MaxTime
    /\ \E F \in Affordable(FaultSets(StatsSites)),
          pages \in aggregate(find(analytics, VisitQuery)) :
         Finish("GET /analytics/stats", TRUE, 200,
                Some(get_analytics_stats(analytics, contact_messages, pages, F # {})), 0, F)
    /\ UNCHANGED <<store, nextOid>>

----------------------------------------------------------------------------
(* The Store Gateway called directly, one DatabaseManager operation per    *)
(* action (create_or_update_profile and get_projects: above).  The value   *)
(* returned is last.ok for the operations that return a bool and last.body *)
(* for the others.                                                         *)

MessageData ==
    [name |-> "John Doe", email |-> <<"john", ".", "doe", "@", "example", ".", "com">>,
     subject |-> "Test", message |-> "Hello", ip_address |-> "10.0.0.1",
     user_agent |-> "aiohttp"]

EventData ==
    {[event_type |-> "visit", page |-> Some("/"), ip_address |-> "10.0.0.1"],
     [event_type |-> "download", page |-> Some("resume"), ip_address |-> "10.0.0.1"]}

VisualizationInputs ==
    {visualizations_data[1],
     [title |-> "Archived Dashboard", is_active |-> FALSE, display_order |-> 0]}

\* db.get_profile()
call_get_profile ==
    /\ now <= MaxTime
    /\ \E F \in Affordable(OneFault) :
         Finish("get_profile", TRUE, 0, db_get_profile(profile, Site("store", 0) \in F), 0, F)
    /\ UNCHANGED <<store, nextOid>>

\* db.create_project(project_data)
call_create_project ==
    /\ now <= MaxTime
    /\ \E F \in Affordable(OneFault), project \in ProjectInputs :
         LET r == create_project(projects, project, now, nextOid, Site("store", 0) \in F)
         IN  /\ projects' = r.coll
             /\ nextOid' = nextOid + (Len(r.coll) - Len(projects))
             /\ FinishWith(project, "create_project", TRUE, 0, r.ret, 0, F)
    /\ UNCHANGED <<profile, visualizations, contact_messages, analytics>>

\* db.update_project(project_id, project_data)
call_update_project ==
    /\ now <= MaxTime
    /\ \E F \in Affordable(OneFault), project_id \in PathIds(projects), project \in ProjectUpdates :
         LET r == update_project(projects, project_id, project, now, Site("store", 0) \in F)
         IN  /\ projects' = r.coll
             /\ FinishWith(<<project_id, project>>, "update_project", r.ret, 0, None, 0, F)
    /\ UNCHANGED <<profile, visualizations, contact_messages, analytics, nextOid>>

\* db.delete_project(project_id)
call_delete_project ==
    /\ now <= MaxTime
    /\ \E F \in Affordable(OneFault), project_id \in PathIds(projects) :
         LET r == delete_project(projects, project_id, Site("store", 0) \in F)
         IN  /\ projects' = r.coll
             /\ FinishWith(project_id, "delete_project", r.ret, 0, None, 0, F)
    /\ UNCHANGED <<profile, visualizations, contact_messages, analytics, nextOid>>

\* db.create_contact_message(message_data)
call_create_contact_message ==
    /\ now <= MaxTime
    /\ \E F \in Affordable(OneFault) :
         LET r == create_contact_message(contact_messages, MessageData, now, nextOid,
                                         Site("store", 0) \in F)
         IN  /\ contact_messages' = r.coll
             /\ nextOid' = nextOid + (Len(r.coll) - Len(contact_messages))
             /\ FinishWith(MessageData, "create_contact_message", TRUE, 0, r.ret, 0, F)
    /\ UNCHANGED <<profile, projects, visualizations, analytics>>

\* db.get_contact_messages()
call_get_contact_messages ==
    /\ now <= MaxTime
    /\ \E F \in Affordable(OneFault) :
         Finish("get_contact_messages", TRUE, 0,
                get_contact_messages(contact_messages, Site("store", 0) \in F), 0, F)
    /\ UNCHANGED <<store, nextOid>>

\* db.mark_message_read(message_id)
call_mark_message_read ==
    /\ now <= MaxTime
    /\ \E F \in Affordable(OneFault), message_id \in PathIds(contact_messages) :
         LET r == mark_message_read(contact_messages, message_id, Site("store", 0) \in F)
         IN  /\ contact_messages' = r.coll
             /\ FinishWith(message_id, "mark_message_read", r.ret, 0, None, 0, F)
    /\ UNCHANGED <<profile, projects, visualizations, analytics, nextOid>>

\* db.create_analytics_event(event_data)
call_create_analytics_event ==
    /\ now <= MaxTime
    /\ \E F \in Affordable(OneFault), event_data \in EventData :
         LET r == create_analytics_event(analytics, event_data, now, nextOid,
                                         Site("store", 0) \in F)
         IN  /\ analytics' = r.coll
             /\ nextOid' = nextOid + (Len(r.coll) - Len(analytics))
             /\ FinishWith(event_data, "create_analytics_event", r.ret, 0, None, 0, F)
    /\ UNCHANGED <<profile, projects, visualizations, contact_messages>>

\* db.get_analytics_stats()
call_get_analytics_stats ==
    /\ now <= MaxTime
    /\ \E F \in Affordable(FaultSets(StatsSites)),
          pages \in aggregate(find(analytics, VisitQuery)) :
         Finish("get_analytics_stats", TRUE, 0,
                get_analytics_stats(analytics, contact_messages, pages, F # {}), 0, F)
    /\ UNCHANGED <<store, nextOid>>

\* db.get_visualizations()
call_get_visualizations ==
    /\ now <= MaxTime
    /\ \E F \in Affordable(OneFault) :
         Finish("get_visualizations", TRUE, 0,
                get_visualizations(visualizations, Site("store", 0) \in F), 0, F)
    /\ UNCHANGED <<store, nextOid>>

\* db.create_visualization(viz_data)
call_create_visualization ==
    /\ now <= MaxTime
    /\ \E F \in Affordable(OneFault), viz_data \in VisualizationInputs :
         LET r == create_visualization(visualizations, viz_data, now, nextOid,
                                       Site("store", 0) \in F)
         IN  /\ visualizations' = r.coll
             /\ nextOid' = nextOid + (Len(r.coll) - Len(visualizations))
             /\ FinishWith(viz_data, "create_visualization", TRUE, 0, r.ret, 0, F)
    /\ UNCHANGED <<profile, projects, contact_messages, analytics>>

----------------------------------------------------------------------------

Init ==
    /\ profile = <<>>
    /\ projects = <<>>
    /\ visualizations = <<>>
    /\ contact_messages = <<>>
    /\ analytics = <<>>
    /\ now = 1
    /\ nextOid = 1
    /\ nextUuid = 1
    /\ faults = 0
    /\ last = [op |-> "none", ok |-> TRUE, status |-> 0, body |-> None, req |-> None]
    /\ hist = NoHistory
    /\ pc = Idle
    /\ loc = NoLocals
    /\ overlap = FALSE

\* every request, one at a time
Next ==
    \/ get_profile
    \/ update_profile
    \/ call_seed_initial_data
    \/ call_create_or_update_profile
    \/ create_project_route
    \/ update_project_route
    \/ delete_project_route
    \/ submit_contact_form
    \/ get_contact_messages_route
    \/ mark_message_read_route
    \/ get_projects_route
    \/ call_get_projects
    \/ log_visit
    \/ log_download
    \/ download_resume
    \/ get_analytics_stats_route

Spec == Init /\ [][Next]_vars

\* the requests that reach db.profile or run the Seeder
NextProfile ==
    \/ get_profile
    \/ update_profile
    \/ call_seed_initial_data
    \/ call_create_or_update_profile

SpecProfile == Init /\ [][NextProfile]_vars

\* the requests that reach db.contact_messages
NextContact ==
    \/ submit_contact_form
    \/ get_contact_messages_route
    \/ mark_message_read_route

SpecContact == Init /\ [][NextContact]_vars

\* the requests that reach db.projects, the Seeder apart
NextProjects ==
    \/ create_project_route
    \/ update_project_route
    \/ delete_project_route
    \/ get_projects_route
    \/ call_get_projects

SpecProjects == Init /\ [][NextProjects]_vars

\* the requests that reach db.analytics
NextAnalytics ==
    \/ log_visit
    \/ log_download
    \/ download_resume
    \/ get_analytics_stats_route

SpecAnalytics == Init /\ [][NextAnalytics]_vars

\* the requests that reach db.contact_messages or db.analytics
NextRecords ==
    \/ NextContact
    \/ NextAnalytics

SpecRecords == Init /\ [][NextRecords]_vars

\* every DatabaseManager operation, called directly
NextGateway ==
    \/ call_get_profile
    \/ call_create_or_update_profile
    \/ call_get_projects
    \/ call_create_project
    \/ call_update_project
    \/ call_delete_project
    \/ call_create_contact_message
    \/ call_get_contact_messages
    \/ call_mark_message_read
    \/ call_create_analytics_event
    \/ call_get_analytics_stats
    \/ call_get_visualizations
    \/ call_create_visualization

SpecGateway == Init /\ [][NextGateway]_vars

----------------------------------------------------------------------------
(* GET /analytics/stats on a store that earlier requests have filled: n    *)
(* events, one per request and tick or `rate` per tick, the one at         *)
(* position d (if any) a download and the others visits whose pages run    *)
(* through `cycle`; and the messages of two POST /contact or of none.      *)

MaxEvents == 12

PageCycles ==
    {<<Some("/")>>, <<Some("/"), Some("projects")>>, <<None, Some(""), Some("projects")>>}

StoredEvents(n, d, cycle, rate) ==
    [i \in 1..n |->
        [_id |-> i,
         event_type |-> IF i = d THEN "download" ELSE "visit",
         page |-> IF i = d THEN Some("resume") ELSE cycle[((i - 1) % Len(cycle)) + 1],
         ip_address |-> "10.0.0.1",
         user_agent |-> "aiohttp",
         referrer |-> "",
         timestamp |-> (i \div rate) - n]]

StoredMessages ==
    [i \in 1..2 |->
        [_id |-> MaxEvents + i, name |-> "John Doe", is_read |-> (i = 1), created_at |-> 0]]

InitStats ==
    /\ profile = <<>>
    /\ projects = <<>>
    /\ visualizations = <<>>
    /\ contact_messages \in {<<>>, StoredMessages}
    /\ analytics \in {StoredEvents(n, d, cycle, rate) :
                         n \in 0..MaxEvents, d \in 0..MaxEvents, cycle \in PageCycles, rate \in 1..2}
    /\ now = 1
    /\ nextOid = MaxEvents + 3
    /\ nextUuid = 1
    /\ faults = 0
    /\ last = [op |-> "none", ok |-> TRUE, status |-> 0, body |-> None, req |-> None]
    /\ hist = NoHistory
    /\ pc = Idle
    /\ loc = NoLocals
    /\ overlap = FALSE

NextStats == get_analytics_stats_route

SpecStats == InitStats /\ [][NextStats]_vars

----------------------------------------------------------------------------
(* GET /profile requests in flight together.  The handler, the Seeder and  *)
(* the gateway suspend at every `await`; each action below is the code     *)
(* from one await to the next, for one client, except that each of the     *)
(* Seeder's two insert loops is one action: its inserts only append to a   *)
(* collection no step of these requests reads.  No store call faults.      *)

InFlight(c) == pc[c] \notin {"idle", "done"}

Goto(c, label) == pc' = [pc EXCEPT ![c] = label]

RaceFrame == UNCHANGED <<contact_messages, analytics, now, nextUuid, faults, last, hist>>

\* get_profile: profile_data = await db.get_profile()
get_profile_read(c) ==
    /\ pc[c] = "idle"
    /\ LET found == db_get_profile(profile, FALSE)
       IN  /\ Goto(c, IF Truthy(found) THEN "done" ELSE "seed_check")
           /\ loc' = [loc EXCEPT ![c].status = IF Truthy(found) THEN StatusOf(Returned) ELSE 0]
    /\ overlap' = (overlap \/ \E d \in Clients \ {c} : InFlight(d))
    /\ UNCHANGED <<profile, projects, visualizations, nextOid>>
    /\ RaceFrame

\* seed_initial_data: existing_profile = await db_manager.get_profile()
seed_check(c) ==
    /\ pc[c] = "seed_check"
    /\ Goto(c, IF Truthy(db_get_profile(profile, FALSE)) THEN "reread" ELSE "find_one")
    /\ UNCHANGED <<profile, projects, visualizations, nextOid, loc, overlap>>
    /\ RaceFrame

\* create_or_update_profile: existing = await self.db.profile.find_one({})
upsert_find_one(c) ==
    /\ pc[c] = "find_one"
    /\ loc' = [loc EXCEPT ![c].existing = find_one(profile)]
    /\ Goto(c, "write")
    /\ UNCHANGED <<profile, projects, visualizations, nextOid, overlap>>
    /\ RaceFrame

\* create_or_update_profile: await update_one(...) or await insert_one(...)
upsert_write(c) ==
    /\ pc[c] = "write"
    /\ profile' = cup_write(profile, loc[c].existing, Put(profile_data, "updated_at", now),
                            now, nextOid)
    /\ nextOid' = nextOid + (Len(profile') - Len(profile))
    /\ Goto(c, "projects")
    /\ UNCHANGED <<projects, visualizations, loc, overlap>>
    /\ RaceFrame

\* seed_initial_data: the loop over projects_data
seed_project(c) ==
    /\ pc[c] = "projects"
    /\ LET S == seed_projects(SeederStore, 1, now, {})
       IN  /\ projects' = S.projects
           /\ nextOid' = S.nextOid
    /\ Goto(c, "visualizations")
    /\ UNCHANGED <<profile, visualizations, loc, overlap>>
    /\ RaceFrame

\* seed_initial_data: the loop over visualizations_data
seed_visualization(c) ==
    /\ pc[c] = "visualizations"
    /\ LET S == seed_visualizations(SeederStore, 1, now, {})
       IN  /\ visualizations' = S.visualizations
           /\ nextOid' = S.nextOid
    /\ Goto(c, "reread")
    /\ UNCHANGED <<profile, projects, loc, overlap>>
    /\ RaceFrame

\* get_profile: profile_data = await db.get_profile(), after the Seeder
get_profile_reread(c) ==
    /\ pc[c] = "reread"
    /\ LET found == db_get_profile(profile, FALSE)
           outcome == IF Truthy(found) THEN Returned ELSE HTTPException(404)
       IN  loc' = [loc EXCEPT ![c].status = StatusOf(outcome)]
    /\ Goto(c, "done")
    /\ UNCHANGED <<profile, projects, visualizations, nextOid, overlap>>
    /\ RaceFrame

NextRace ==
    \E c \in Clients :
        \/ get_profile_read(c)
        \/ seed_check(c)
        \/ upsert_find_one(c)
        \/ upsert_write(c)
        \/ seed_project(c)
        \/ seed_visualization(c)
        \/ get_profile_reread(c)

SpecRace == Init /\ [][NextRace]_vars

----------------------------------------------------------------------------
(* create_or_update_profile calls in flight together, each client making   *)
(* one call after another.  The operation suspends at its two awaits: an   *)
(* action is the code up to the first await, or from one await to the      *)
(* next.  No store call faults.                                            *)

Upserting(c) == pc[c] \in {"find_one", "write"}

\* profile_data['updated_at'] = datetime.utcnow(); the find_one is issued
cup_call(c) ==
    /\ pc[c] \in {"idle", "done"}
    /\ now <= MaxTime
    /\ \E p \in ProfileContents :
         loc' = [loc EXCEPT ![c].data = Some(Put([personal |-> p], "updated_at", now)),
                            ![c].existing = None]
    /\ now' = now + 1
    /\ Goto(c, "find_one")
    /\ overlap' = (overlap \/ \E d \in Clients \ {c} : Upserting(d))
    /\ UNCHANGED <<store, nextOid, nextUuid, faults, last, hist>>

\* existing = await self.db.profile.find_one({})
cup_find_one(c) ==
    /\ pc[c] = "find_one"
    /\ loc' = [loc EXCEPT ![c].existing = find_one(profile)]
    /\ Goto(c, "write")
    /\ UNCHANGED <<store, nextOid, now, nextUuid, faults, last, hist, overlap>>

\* await update_one(...) or await insert_one(...); return True
cup_write_return(c) ==
    /\ pc[c] = "write"
    /\ profile' = cup_write(profile, loc[c].existing, loc[c].data[1], now, nextOid)
    /\ nextOid' = nextOid + (Len(profile') - Len(profile))
    /\ loc' = [loc EXCEPT ![c].status = 1]
    /\ Goto(c, "done")
    /\ UNCHANGED <<projects, visualizations, contact_messages, analytics,
                   now, nextUuid, faults, last, hist, overlap>>

NextUpsertRace ==
    \E c \in Clients :
        \/ cup_call(c)
        \/ cup_find_one(c)
        \/ cup_write_return(c)

SpecUpsertRace == Init /\ [][NextUpsertRace]_vars

----------------------------------------------------------------------------
(* get_analytics_stats calls in flight together with create_analytics_event *)
(* calls.  get_analytics_stats suspends at each of its five store calls; an *)
(* action is the code from one await to the next, and loc[c].data holds the *)
(* values computed so far.  create_analytics_event has one await, its       *)
(* insert_one, and is one action.  No store call faults.                    *)

SetStat(c, field, value) ==
    loc' = [loc EXCEPT ![c].data = Some([@[1] EXCEPT ![field] = value])]

StatsFrame == UNCHANGED <<store, nextOid, now, nextUuid, faults, last, hist, overlap>>

\* a get_analytics_stats call starts
stats_call(c) ==
    /\ pc[c] \in {"idle", "done"}
    /\ now <= MaxTime
    /\ loc' = [loc EXCEPT ![c].data = Some(ZeroStats)]
    /\ now' = now + 1
    /\ Goto(c, "count_visits")
    /\ UNCHANGED <<store, nextOid, nextUuid, faults, last, hist, overlap>>

\* total_visits = await count_documents({"event_type": "visit"})
stats_count_visits(c) ==
    /\ pc[c] = "count_visits"
    /\ SetStat(c, "total_visits", count_documents(analytics, VisitQuery))
    /\ Goto(c, "count_downloads")
    /\ StatsFrame

\* total_downloads = await count_documents({"event_type": "download"})
stats_count_downloads(c) ==
    /\ pc[c] = "count_downloads"
    /\ SetStat(c, "total_downloads", count_documents(analytics, [event_type |-> "download"]))
    /\ Goto(c, "count_contacts")
    /\ StatsFrame

\* total_contacts = await db.contact_messages.count_documents({})
stats_count_contacts(c) ==
    /\ pc[c] = "count_contacts"
    /\ SetStat(c, "total_contacts", count_documents(contact_messages, <<>>))
    /\ Goto(c, "find_visits")
    /\ StatsFrame

\* async for visit in find({"event_type": "visit"}).sort("timestamp", -1).limit(10)
stats_find_visits(c) ==
    /\ pc[c] = "find_visits"
    /\ LET recent == limit(sort(find(analytics, VisitQuery), "timestamp", -1), RecentLimit)
       IN  SetStat(c, "recent_visits", [i \in 1..Len(recent) |-> recent_visit(recent[i])])
    /\ Goto(c, "aggregate")
    /\ StatsFrame

\* async for page in aggregate(pipeline); return {...}
stats_aggregate_return(c) ==
    /\ pc[c] = "aggregate"
    /\ \E pages \in aggregate(find(analytics, VisitQuery)) :
         LET top_pages == [i \in 1..Len(pages) |->
                             top_page(find(analytics, VisitQuery), pages[i])]
         IN  last' = [op |-> "get_analytics_stats", ok |-> TRUE, status |-> 0,
                      body |-> [loc[c].data[1] EXCEPT !["top_pages"] = top_pages],
                      req |-> None]
    /\ Goto(c, "done")
    /\ UNCHANGED <<store, nextOid, now, nextUuid, faults, hist, loc, overlap>>

\* a create_analytics_event call, start to return
append_event(c) ==
    /\ pc[c] \in {"idle", "done"}
    /\ now <= MaxTime
    /\ \E event_data \in EventData :
         analytics' = create_analytics_event(analytics, event_data, now, nextOid, FALSE).coll
    /\ nextOid' = nextOid + 1
    /\ now' = now + 1
    /\ overlap' = (overlap \/ \E d \in Clients \ {c} : pc[d] \notin {"idle", "done"})
    /\ UNCHANGED <<profile, projects, visualizations, contact_messages,
                   nextUuid, faults, last, hist, pc, loc>>

NextStatsRace ==
    \E c \in Clients :
        \/ stats_call(c)
        \/ stats_count_visits(c)
        \/ stats_count_downloads(c)
        \/ stats_count_contacts(c)
        \/ stats_find_visits(c)
        \/ stats_aggregate_return(c)
        \/ append_event(c)

SpecStatsRace == Init /\ [][NextStatsRace]_vars

----------------------------------------------------------------------------
(* Properties *)

Once(coll, data) ==
    /\ Len(coll) = Len(data)
    /\ \A i \in 1..Len(data) :
          Cardinality({j \in 1..Len(coll) : coll[j]["title"] = data[i]["title"]}) = 1

\* one profile, and each default project and visualization exactly once
DefaultsOnce ==
    /\ Len(profile) = 1
    /\ Once(projects, projects_data)
    /\ Once(visualizations, visualizations_data)

SeederCollections == <<profile, projects, visualizations>>

\* C1: when seed_initial_data is invoked twice in sequence on an empty store
\* and no store call faults, the second invocation inserts nothing and changes
\* nothing, and the store holds exactly one profile.
C1_SeederIdempotent ==
    [][(/\ now = 2
        /\ last.op = "seed_initial_data"
        /\ last'.op = "seed_initial_data"
        /\ faults' = 0)
       => (/\ Len(profile') = 1
           /\ SeederCollections' = SeederCollections
           /\ nextOid' = nextOid)]_vars

C1_Witness ==
    /\ now = 3
    /\ last.op = "seed_initial_data"
    /\ faults = 0
    /\ nextUuid = 1
    /\ DefaultsOnce

\* C2: a seed_initial_data invocation, direct or through GET /profile, on a
\* store that holds a profile changes no field of the profile and inserts no
\* project or visualization, store faults included.
C2_SeederNeverOverwrites ==
    [][(/\ Len(profile) > 0
        /\ last'.op \in {"seed_initial_data", "GET /profile"})
       => SeederCollections' = SeederCollections]_vars

Completed == {c \in Clients : pc[c] = "done"}
Quiescent == \A c \in Clients : ~InFlight(c)

\* C3 (as stated): after any interleaving of two or more GET /profile requests
\* on an empty store the store holds one profile and each default project and
\* visualization exactly once.
C3_ExactlyOnceAnyInterleaving ==
    (Quiescent /\ Cardinality(Completed) >= 2) => DefaultsOnce

\* C3 (amended): after two or more GET /profile requests on an empty store, no
\* two of them in flight at the same time, the store holds one profile and each
\* default project and visualization exactly once.
C3_ExactlyOnceSequential ==
    (Quiescent /\ Cardinality(Completed) >= 2 /\ ~overlap) => DefaultsOnce

C3_Witness ==
    /\ Quiescent
    /\ Cardinality(Completed) >= 2
    /\ ~overlap
    /\ \A c \in Completed : loc[c].status = 200

\* C4: at most one profile document exists in every state reached by requests
\* executed one at a time from an empty store.
C4_AtMostOneProfile == Len(profile) <= 1

C4_Witness ==
    /\ Len(profile) = 1
    /\ last.op \in {"PUT /profile", "create_or_update_profile"}
    /\ last.ok
    /\ profile[1]["_id"] < nextOid - 1
    /\ profile[1]["personal"] # DefaultPersonal

\* C5: once a profile exists, every later successful profile write, direct or
\* through PUT /profile, leaves created_at as it was and sets updated_at to
\* the time of the write.
C5_CreatedAtPreserved ==
    [][(/\ Len(profile) > 0
        /\ last'.op \in {"PUT /profile", "create_or_update_profile"}
        /\ last'.ok)
       => (/\ profile'[1]["created_at"] = profile[1]["created_at"]
           /\ profile'[1]["updated_at"] = now)]_vars

\* C6: whenever the gateway returns false for PUT /projects/{id},
\* DELETE /projects/{id} or PUT /contact/{id}/read, the response has status 404.
C6_NotFoundIs404 ==
    (/\ last.op \in {"PUT /projects/{id}", "DELETE /projects/{id}", "PUT /contact/{id}/read"}
     /\ ~last.ok)
    => last.status = 404

\* C7: GET /profile responds 404 when the profile is absent before and after
\* the seed attempt.
C7_StillAbsentIs404 ==
    (last.op = "GET /profile" /\ ~Truthy(last.body)) => last.status = 404

\* C8: a successful POST /contact returns a message_id, and the GET /contact
\* that follows it lists an entry with that id and is_read false.
C8_PostedMessageListed ==
    [][(/\ last.op = "POST /contact"
        /\ last.status = 200
        /\ last'.op = "GET /contact"
        /\ faults' = faults)
       => (/\ Truthy(last.body)
           /\ \E i \in 1..Len(last'.body) :
                 /\ last'.body[i].id = last.body[1]
                 /\ last'.body[i].is_read = FALSE)]_vars

RequiredContactFields == {"name", "email", "subject", "message"}
WellFormedEmails == {<<"john", ".", "doe", "@", "example", ".", "com">>}

\* a required field is missing, or the e-mail address is malformed
InvalidContactBody(body) ==
    \/ \E f \in RequiredContactFields : f \notin DOMAIN body
    \/ body["email"] \notin WellFormedEmails

\* C9: a POST /contact with an invalid body is rejected with a validation
\* error (400 or 422) and leaves contact_messages and analytics unchanged.
C9_InvalidContactRejected ==
    [][(/\ last'.op = "POST /contact"
        /\ InvalidContactBody(last'.req[1]))
       => (/\ last'.status \in {400, 422}
           /\ contact_messages' = contact_messages
           /\ analytics' = analytics)]_vars

C9_Witness ==
    /\ last.op = "POST /contact"
    /\ last.status = 422
    /\ RequiredContactFields \subseteq DOMAIN last.req[1]
    /\ last.req[1]["email"] \notin WellFormedEmails
    /\ Len(contact_messages) > 0
    /\ Len(analytics) > 0

\* C10: every POST /contact that returns 200 has added exactly one contact
\* message and exactly one analytics event of type "contact"; one that stores
\* no message adds no analytics event.
C10_ContactLogsEvent ==
    [][(last'.op = "POST /contact")
       => (/\ (last'.status = 200
               => (/\ Len(contact_messages') = Len(contact_messages) + 1
                   /\ Len(analytics') = Len(analytics) + 1
                   /\ analytics'[Len(analytics')]["event_type"] = "contact"))
           /\ (contact_messages' = contact_messages => analytics' = analytics))]_vars

----------------------------------------------------------------------------
(* Properties: analytics *)

EventsOfType(events, type) == {i \in 1..Len(events) : events[i]["event_type"] = type}

\* C11: GET /resume/download responds 500 whenever logging the download event
\* fails, and every 200 from it means that the request appended one analytics
\* event of type "download".
C11_ResumeLogsDownload ==
    [][(last'.op = "GET /resume/download")
       => (/\ (analytics' = analytics => last'.status = 500)
           /\ (last'.status = 200
               => (/\ Len(analytics') = Len(analytics) + 1
                   /\ analytics'[Len(analytics')]["event_type"] = "download")))]_vars

Min(a, b) == IF a < b THEN a ELSE b

\* the stored visits whose timestamp is tau, and the entries of recent_visits
\* that carry it
VisitsAt(tau) == {i \in EventsOfType(analytics, "visit") : analytics[i]["timestamp"] = tau}
RecentAt(recent, tau) == {i \in 1..Len(recent) : recent[i].timestamp = tau}

\* `recent` is the min(10, number of stored visits) most recent stored visits,
\* most recent first
MostRecentVisits(recent) ==
    /\ Len(recent) = Min(10, Cardinality(EventsOfType(analytics, "visit")))
    /\ \A i, j \in 1..Len(recent) : i < j => recent[i].timestamp >= recent[j].timestamp
    /\ \A i \in 1..Len(recent) :
          /\ Cardinality(RecentAt(recent, recent[i].timestamp))
                <= Cardinality(VisitsAt(recent[i].timestamp))
          /\ \E v \in VisitsAt(recent[i].timestamp) :
                analytics[v]["ip_address"] = recent[i].ip_address
    /\ \A v \in EventsOfType(analytics, "visit") :
          \/ analytics[v]["timestamp"] <= recent[Len(recent)].timestamp
          \/ Cardinality(RecentAt(recent, analytics[v]["timestamp"]))
                = Cardinality(VisitsAt(analytics[v]["timestamp"]))

\* C12: with no store fault (requests run one at a time), get_analytics_stats
\* returns total_visits = number of stored "visit" events, total_downloads =
\* number of stored "download" events, total_contacts = number of stored
\* contact messages, and recent_visits = the min(10, total_visits) most recent
\* visits in non-increasing timestamp order.
C12_StatsCounts ==
    [][(last'.op = "GET /analytics/stats" /\ faults' = faults)
       => LET stats == last'.body[1]
          IN  /\ stats.total_visits = Cardinality(EventsOfType(analytics, "visit"))
              /\ stats.total_downloads = Cardinality(EventsOfType(analytics, "download"))
              /\ stats.total_contacts = Len(contact_messages)
              /\ MostRecentVisits(stats.recent_visits)]_vars

C12_Witness ==
    /\ last.op = "GET /analytics/stats"
    /\ faults = 0
    /\ last.body[1].total_visits > 10
    /\ Len(last.body[1].recent_visits) = 10
    /\ last.body[1].total_downloads = 1
    /\ last.body[1].total_contacts = 2
    /\ \E i \in 1..9 :
          last.body[1].recent_visits[i].timestamp = last.body[1].recent_visits[i + 1].timestamp

\* C13: every POST /analytics/visit that returns the success envelope has
\* appended exactly one analytics event, of type "visit", so that the number of
\* stored visits grew by one, whatever the valid body.
C13_VisitLogsVisit ==
    [][(last'.op = "POST /analytics/visit" /\ last'.status = 200)
       => (/\ Len(analytics') = Len(analytics) + 1
           /\ analytics'[Len(analytics')]["event_type"] = "visit"
           /\ Cardinality(EventsOfType(analytics', "visit"))
                = Cardinality(EventsOfType(analytics, "visit")) + 1)]_vars

----------------------------------------------------------------------------
(* Properties: projects *)

\* the stored projects of the type `filter` asks for, as the gateway hands them
\* out; `all` is the set of filters that ask for every project
StoredOfType(filter, all) ==
    {StrId(projects[i]) : i \in {j \in 1..Len(projects) :
                                    filter \in all \/ projects[j]["type"] = filter[1]}}

ListsExactly(listed, docs) ==
    /\ {listed[i] : i \in 1..Len(listed)} = docs
    /\ Len(listed) = Cardinality(docs)
    /\ \A i, j \in 1..Len(listed) :
          i < j => listed[i]["display_order"] <= listed[j]["display_order"]

\* C14 (as stated): get_projects(project_type) returns exactly the stored
\* projects whose type equals the supplied filter, all stored projects when no
\* filter is supplied, in non-decreasing display_order.
C14_ListedByType ==
    [][(last'.op = "get_projects")
       => ListsExactly(last'.body, StoredOfType(last'.req[1], {None}))]_vars

\* C14 (amended): when its store call does not fault, get_projects(project_type)
\* returns exactly the stored projects whose type equals the filter if the
\* filter is a non-empty string, and all stored projects if the filter is
\* absent or the empty string, in non-decreasing display_order; when the store
\* call faults it returns the empty list.
C14_ListedByNonEmptyType ==
    [][(last'.op = "get_projects")
       => IF faults' = faults
          THEN ListsExactly(last'.body, StoredOfType(last'.req[1], {None, Some("")}))
          ELSE last'.body = <<>>]_vars

C14_Witness ==
    /\ last.op = "get_projects"
    /\ faults = 0
    /\ last.req = Some(Some("Academic Project"))
    /\ Len(last.body) = 1
    /\ Len(projects) = 2
    /\ projects[1]["type"] = "Academic Project"

\* the identifier of a listed document, from the gateway or in a response
ListedId(doc) == IF "_id" \in DOMAIN doc THEN doc["_id"] ELSE doc["id"]

\* C15: after a successful create_project, get_projects() with no filter
\* (through the gateway or through GET /projects) returns a document whose
\* user-supplied fields equal the input, whose identifier is the one
\* create_project returned, and whose created_at and updated_at are set.
C15_CreatedProjectListed ==
    [][(/\ last.op = "POST /projects"
        /\ last.status = 200
        /\ last'.op \in {"get_projects", "GET /projects"}
        /\ last'.req = Some(None)
        /\ faults' = faults)
       => \E i \in 1..Len(last'.body) :
             /\ ListedId(last'.body[i]) = last.body[1]
             /\ \A f \in DOMAIN last.req[1] : last'.body[i][f] = last.req[1][f]
             /\ last'.body[i]["created_at"] = now - 1
             /\ last'.body[i]["updated_at"] = now - 1]_vars

\* the position of the project a path identifier denotes (none: empty set)
Denoted(coll, id) ==
    {i \in 1..Len(coll) : Truthy(ObjectId(id)) /\ coll[i]["_id"] = ObjectId(id)[1]}

\* C16: a successful update_project(id, data), through PUT /projects/{id},
\* changes in the targeted project only the fields present in data and
\* updated_at; its other fields and every other project stay as they were.
C16_PartialUpdate ==
    [][(last'.op = "PUT /projects/{id}" /\ last'.ok)
       => LET id == last'.req[1][1]
              data == last'.req[1][2]
          IN  /\ Len(projects') = Len(projects)
              /\ Denoted(projects, id) # {}
              /\ \A i \in 1..Len(projects) :
                    IF i \in Denoted(projects, id)
                    THEN /\ DOMAIN projects'[i] = DOMAIN projects[i]
                         /\ \A f \in DOMAIN projects[i] \ {"updated_at"} :
                               projects'[i][f] = IF f \in DOMAIN data THEN data[f]
                                                 ELSE projects[i][f]
                         /\ projects'[i]["updated_at"] = now
                    ELSE projects'[i] = projects[i]]_vars

C16_Witness ==
    /\ last.op = "PUT /projects/{id}"
    /\ last.ok
    /\ last.req[1][2] = [display_order |-> 2]
    /\ Len(projects) = 2
    /\ \E i \in Denoted(projects, last.req[1][1]) :
          /\ projects[i]["title"] = "Fraud Model"
          /\ projects[i]["display_order"] = 2
          /\ projects[i]["created_at"] < projects[i]["updated_at"]

\* every supplied field already has the stored value
SameAsStored(coll, id, data) ==
    \A i \in Denoted(coll, id) : \A f \in DOMAIN data : coll[i][f] = data[f]

DeletedAbsent ==
    \A id \in hist.deleted :
        /\ Denoted(projects, id) = {}
        /\ last.op \in {"get_projects", "GET /projects"}
              => \A i \in 1..Len(last.body) : ListedId(last.body[i]) # id

\* delete_project returns true exactly when the project existed and was
\* removed; for an unknown or malformed id it returns false and changes nothing
DeleteReturn ==
    [][(last'.op = "DELETE /projects/{id}")
       => LET id == last'.req[1]
          IN  /\ last'.ok <=> (/\ Denoted(projects, id) # {}
                                /\ Denoted(projects', id) = {}
                                /\ Len(projects') = Len(projects) - 1)
              /\ Denoted(projects, id) = {}
                    => (~last'.ok /\ projects' = projects)]_vars

\* C18: delete_project(id) returns true exactly when a project with that id
\* existed and was removed, and the project is then absent from the store and
\* from every later get_projects result; for an unknown or malformed id it
\* returns false and the stored projects are unchanged.
C18_DeleteRemoves == DeleteReturn /\ []DeletedAbsent

C18_Witness ==
    /\ last.op = "get_projects"
    /\ last.req = Some(None)
    /\ faults = 0
    /\ hist.deleted = {OidStr(1)}
    /\ nextOid = 2
    /\ last.body = <<>>

----------------------------------------------------------------------------
(* Properties: contact messages and analytics events *)

Unread(coll, id) ==
    /\ Denoted(coll, id) # {}
    /\ \A i \in Denoted(coll, id) : ~coll[i]["is_read"]

\* over any sequence of calls, mark_message_read returns true at most once per
\* message
TrueAtMostOnce ==
    \A i, j \in 1..Len(hist.marked) : i # j => hist.marked[i] # hist.marked[j]

\* true exactly when the message exists and was unread; otherwise false and
\* the store unchanged
ReadReturnExact ==
    [][(last'.op = "PUT /contact/{id}/read")
       => LET id == last'.req[1]
          IN  /\ last'.ok <=> Unread(contact_messages, id)
              /\ ~Unread(contact_messages, id)
                    => (~last'.ok /\ contact_messages' = contact_messages)]_vars

\* C19 (as stated): mark_message_read(id) returns true exactly when a message
\* with that id exists and was unread before the call; for an unknown id or an
\* already-read message it returns false and leaves the store unchanged; it
\* returns true at most once per message.
C19_TrueExactlyWhenUnread == ReadReturnExact /\ []TrueAtMostOnce

\* true only when the message exists and was unread, and then always when
\* the store call does not fault; false leaves the store unchanged
ReadReturn ==
    [][(last'.op = "PUT /contact/{id}/read")
       => LET id == last'.req[1]
          IN  /\ last'.ok => Unread(contact_messages, id)
              /\ (Unread(contact_messages, id) /\ faults' = faults) => last'.ok
              /\ ~last'.ok => contact_messages' = contact_messages]_vars

\* C19 (amended): mark_message_read(id) returns true only when a message with
\* that id exists and was unread before the call, and then always when the
\* store call does not fault; whenever it returns false (unknown id,
\* already-read message, store fault) the store is unchanged; it returns true
\* at most once per message.
C19_TrueOnlyWhenUnread == ReadReturn /\ []TrueAtMostOnce

C19_Witness ==
    /\ last.op = "PUT /contact/{id}/read"
    /\ ~last.ok
    /\ faults = 0
    /\ last.req[1] \in {hist.marked[i] : i \in 1..Len(hist.marked)}
    /\ \E i \in Denoted(contact_messages, last.req[1]) : contact_messages[i]["is_read"]

\* C20: contact messages and analytics events are append-only: no operation
\* deletes one, none changes a field of a stored analytics event, and the only
\* change to a stored contact message is is_read going from false to true.
C20_AppendOnly ==
    [][/\ Len(analytics') >= Len(analytics)
       /\ \A i \in 1..Len(analytics) : analytics'[i] = analytics[i]
       /\ Len(contact_messages') >= Len(contact_messages)
       /\ \A i \in 1..Len(contact_messages) :
             \/ contact_messages'[i] = contact_messages[i]
             \/ /\ ~contact_messages[i]["is_read"]
                /\ contact_messages'[i] = Put(contact_messages[i], "is_read", TRUE)]_vars

C20_Witness ==
    /\ Len(analytics) >= 2
    /\ \E i \in 1..Len(contact_messages) : contact_messages[i]["is_read"]
    /\ last.op \in {"POST /analytics/visit", "POST /analytics/download", "GET /resume/download"}

----------------------------------------------------------------------------
(* Properties: fault containment *)

ReturnsBool ==
    {"create_or_update_profile", "update_project", "delete_project", "mark_message_read",
     "create_analytics_event"}
ReturnsOptional == {"get_profile", "create_project", "create_contact_message",
                    "create_visualization"}
ReturnsList == {"get_projects", "get_contact_messages", "get_visualizations"}

\* the value the last DatabaseManager operation returned is its safe default
SafeDefault(l) ==
    /\ l.op \in ReturnsBool => ~l.ok
    /\ l.op \in ReturnsOptional => l.body = None
    /\ l.op \in ReturnsList => l.body = <<>>
    /\ l.op = "get_analytics_stats" => l.body = ZeroStats

\* C21: for every DatabaseManager operation, when any store call inside it
\* faults, the operation returns its safe default: absent for get_profile and
\* the create_* identifiers, false for the boolean writes, an empty list for
\* the listings, the all-zero/empty aggregate for get_analytics_stats.
C21_FaultContained ==
    [][(faults' > faults) => SafeDefault(last')]_vars

C21_Witness ==
    /\ last.op = "get_analytics_stats"
    /\ faults = 1
    /\ Len(analytics) = 2
    /\ last.body = ZeroStats

----------------------------------------------------------------------------
(* Properties: concurrent profile upserts *)

\* a call that read "no existing profile" inserts when it writes, whatever
\* the store holds by then
InsertsAfterReadingNone ==
    [][\A c \in Clients :
          (pc[c] = "write" /\ pc'[c] = "done" /\ loc[c].existing = None)
          => Len(profile') = Len(profile) + 1]_vars

\* C22: two concurrent create_or_update_profile calls on a store with no
\* profile can both read "no existing profile" before either writes, and then
\* both insert: a call that read none inserts whatever the store holds when it
\* writes, and a second Profile document arises only from calls that were in
\* flight together.
C22_BothInsert == InsertsAfterReadingNone /\ [](Len(profile) > 1 => overlap)

C22_Witness ==
    /\ Len(profile) = 2
    /\ nextOid = 3
    /\ now = 3
    /\ \A c \in Clients : pc[c] = "done" /\ loc[c].existing = None
    /\ profile[1]["personal"] # profile[2]["personal"]

----------------------------------------------------------------------------
(* Properties: the analytics aggregate *)

RECURSIVE SumVisits(_)
SumVisits(pages) ==
    IF Len(pages) = 0 THEN 0 ELSE pages[1].visits + SumVisits(Tail(pages))

\* the aggregate is one that a single store state yields
OneStoreState(stats) ==
    /\ Len(stats.recent_visits) = Min(10, stats.total_visits)
    /\ SumVisits(stats.top_pages) <= stats.total_visits

\* C23: get_analytics_stats reflects a single store state even when analytics
\* events are appended concurrently with it: in every returned aggregate, the
\* length of recent_visits equals min(10, total_visits) and the sum of visits
\* over top_pages is at most total_visits.
C23_SingleStoreState ==
    (last.op = "get_analytics_stats") => OneStoreState(last.body)

\* the stored visits that belong to the page "/": page null, empty or "/"
RootVisits ==
    {i \in EventsOfType(analytics, "visit") :
        group_id(analytics[i]) \in {None, Some(""), Some("/")}}

AtMostFiveDescending(top) ==
    /\ Len(top) <= 5
    /\ \A i, j \in 1..Len(top) : i < j => top[i].visits >= top[j].visits

DistinctPages(top) ==
    \A i, j \in 1..Len(top) : i # j => top[i].page # top[j].page

RootCountedTogether(top) ==
    \A i \in 1..Len(top) : top[i].page = Some("/") => top[i].visits = Cardinality(RootVisits)

\* C24: top_pages returned by get_analytics_stats has at most 5 entries in
\* non-increasing visits order, its page values are pairwise distinct, and
\* visit events whose page is null or empty are counted together with those
\* whose page is "/" under the single page "/".
C24_TopPages ==
    [][(last'.op = "GET /analytics/stats" /\ faults' = faults)
       => LET top == last'.body[1].top_pages
          IN  /\ AtMostFiveDescending(top)
              /\ DistinctPages(top)
              /\ RootCountedTogether(top)]_vars

\* the entry of recent_visits made from the stored visit v shows "/" for a
\* visit without page
PageDefaulted(entry, v) ==
    group_id(analytics[v]) = None => entry.page = Some("/")

IpDefaulted(entry, v) ==
    "ip_address" \notin DOMAIN analytics[v] => entry.ip_address = "unknown"

\* C25: every recent_visits entry returned by get_analytics_stats has page "/"
\* when the visit event carries no page, including a visit logged through
\* POST /analytics/visit with the page omitted from the request body, and
\* ip_address "unknown" when the event carries no IP.
C25_RecentDefaults ==
    [][(last'.op = "GET /analytics/stats" /\ faults' = faults)
       => LET recent == last'.body[1].recent_visits
          IN  \A i \in 1..Len(recent) : \A v \in VisitsAt(recent[i].timestamp) :
                 /\ PageDefaulted(recent[i], v)
                 /\ IpDefaulted(recent[i], v)]_vars

----------------------------------------------------------------------------
(* Properties: seeding *)

\* where in the default items a stored document comes from (0: nowhere)
DataIndex(doc, data) ==
    IF \E k \in 1..Len(data) : data[k]["title"] = doc["title"]
    THEN CHOOSE k \in 1..Len(data) : data[k]["title"] = doc["title"]
    ELSE 0

\* the stored documents are default items, in the order of the defaults
InFixedOrder(coll, data) ==
    /\ \A i \in 1..Len(coll) : DataIndex(coll[i], data) > 0
    /\ \A i, j \in 1..Len(coll) : i < j => DataIndex(coll[i], data) < DataIndex(coll[j], data)

Missing(coll, data) ==
    {k \in 1..Len(data) : \A i \in 1..Len(coll) : coll[i]["title"] # data[k]["title"]}

Seeding == {"seed_initial_data", "GET /profile"}

\* C26: during seeding, project and visualization inserts are independent:
\* when create_project or create_visualization fails for one default item,
\* seed_initial_data still attempts every remaining default project and
\* visualization, in their fixed order, and completes: after a seeding that
\* inserted the profile, the stored projects and visualizations are default
\* items in the order of the defaults, and no more of them are missing than
\* store calls faulted.
C26_InsertsIndependent ==
    [][(last'.op \in Seeding /\ Len(profile) = 0 /\ Len(profile') = 1)
       => (/\ InFixedOrder(projects', projects_data)
           /\ InFixedOrder(visualizations', visualizations_data)
           /\ Cardinality(Missing(projects', projects_data))
                 + Cardinality(Missing(visualizations', visualizations_data))
                 <= faults' - faults)]_vars

C26_Witness ==
    /\ last.op = "seed_initial_data"
    /\ now = 2
    /\ faults = 1
    /\ Len(profile) = 1
    /\ Missing(projects, projects_data) = {2}
    /\ Missing(visualizations, visualizations_data) = {}

\* C27: partial seeding is never repaired: once a Profile document exists, no
\* later seed_initial_data invocation, direct or through GET /profile, inserts
\* any default project or visualization, so a default item that is absent
\* (its insert failed during the first seeding, or the profile was first
\* created through PUT /profile) stays absent.
C27_NeverRepaired ==
    [][(Len(profile) > 0)
       => (/\ last'.op \in Seeding
                => (projects' = projects /\ visualizations' = visualizations)
           /\ Missing(projects, projects_data) \subseteq Missing(projects', projects_data)
           /\ Missing(visualizations, visualizations_data)
                 \subseteq Missing(visualizations', visualizations_data))]_vars

\* under the faults F the Seeder gets past its existence check and its
\* create_or_update_profile call returns false
ProfileWriteFails(F) ==
    /\ ~Truthy(db_get_profile(profile, Site("seed_get_profile", 0) \in F))
    /\ ~create_or_update_profile(profile, profile_data, now, nextOid,
                                 Site("seed_find_one", 0) \in F,
                                 Site("seed_write", 0) \in F).ret

\* whatever the store holds, a seeding whose profile write fails changes nothing
FailedWriteChangesNothing ==
    \A F \in SUBSET SeedSites :
        ProfileWriteFails(F) => seed_initial_data(SeederStore, now, F) = SeederStore

\* C28: when the profile insert fails during seeding (create_or_update_profile
\* returns false), seed_initial_data returns without inserting any project or
\* visualization, leaving all three collections as they were; so a seeding,
\* direct or through GET /profile, that starts and ends without a profile
\* has changed no collection.
C28_FailedProfileStopsSeeding ==
    /\ []FailedWriteChangesNothing
    /\ [][(last'.op \in Seeding /\ Len(profile) = 0 /\ Len(profile') = 0)
          => SeederCollections' = SeederCollections]_vars

C28_Witness ==
    /\ last.op \in Seeding
    /\ faults = 1
    /\ now = 2
    /\ Len(profile) = 0
    /\ Len(projects) = 0
    /\ Len(visualizations) = 0
    /\ nextOid = 1

----------------------------------------------------------------------------
(* Properties: listings *)

Listings == {"GET /projects", "GET /contact"}

ListedIds(body) == {body[i].id : i \in 1..Len(body)}

\* the requests that take the identifier of a listed document in their path
TakesIdOf(op) ==
    IF op = "GET /projects" THEN {"PUT /projects/{id}", "DELETE /projects/{id}"}
    ELSE IF op = "GET /contact" THEN {"PUT /contact/{id}/read"}
    ELSE {}

\* the path identifier of a PUT or DELETE request
PathId(l) == IF l.op = "PUT /projects/{id}" THEN l.req[1][1] ELSE l.req[1]

\* C29: listing responses are deterministic in the store state: two
\* GET /projects (or two GET /contact) requests with no write between them
\* return identical bodies, including the same id for each document, and that
\* id is accepted by PUT /projects/{id} and DELETE /projects/{id}
\* (respectively PUT /contact/{id}/read) as identifying that document
\* (no store call faults).
C29_ListingDeterministic ==
    [][(last.op \in Listings /\ faults' = 0)
       => (/\ (last'.op = last.op /\ last'.req = last.req) => last'.body = last.body
           /\ (last'.op \in TakesIdOf(last.op) /\ PathId(last') \in ListedIds(last.body))
                 => (last'.ok /\ last'.status = 200))]_vars

====
